---- MODULE Spec2Model ----
(***************************************************************************)
(* AP/STA provisioning state machine of firepi_zero:                       *)
(*   wifi_scripts/firepi-wifi-switch.sh  (Credential Switch Executor)      *)
(*   wifi_scripts/firepi-wifi-online.sh  (Connectivity Watchdog)           *)
(*   wifi_scripts/firepi-softap.sh       (AP Controller, start|stop)       *)
(* The shared state is the instance/ file triad (lock, pending, cooldown)  *)
(* and the NetworkManager profile set of the single Wi-Fi interface.       *)
(***************************************************************************)
EXTENDS Integers, Sequences, FiniteSets, TLC

\* ---------------------------------------------------------------- bounds
NumExec == 2            \* concurrently triggered firepi-wifi-switch.sh processes
AgeStep == 300          \* seconds that pass in one Age step
MaxCalls == 2           \* invocations counted per firepi-softap.sh variant
MaxBoots == 2           \* reboots
MaxProbes == 4          \* probes counted
MaxStarts == 4          \* `firepi-softap.sh start` calls

\* ------------------------------------------------------ program constants
PollBudget == 20        \* for i in {1..20}
CooldownSecs == 300     \* (( age < 300 ))

Execs == 1..NumExec
Ssids == {"", "home"}
Psks  == {"", "pw"}

IFACE == "wlan0"
AP    == "FirePiAP"
ApNames == {"FirePiAP", "Hotspot"}

\* CON="FirePiSTA-${SSID}"
StaName(ssid) == "FirePiSTA-" \o ssid
StaNames == {StaName(s) : s \in Ssids \ {""}}

\* The PENDING file: absent, or the JSON object {ssid, psk}.
NoFile == [exists |-> FALSE, ssid |-> "", psk |-> ""]
PendingFile(s, k) == [exists |-> TRUE, ssid |-> s, psk |-> k]

\* IPv4 addresses as octet tuples; <<>> is the empty string nmcli prints.
NoIP  == <<>>
ApIP  == <<10, 42, 0, 1>>
LanIP == <<192, 168, 1, 23>>

\* What `nmcli dev show $IFACE` reports: IP4.ADDRESS and GENERAL.STATE.
Disconnected == [ip |-> NoIP,  state |-> 30]
IpCheck      == [ip |-> LanIP, state |-> 80]
StaLink      == [ip |-> LanIP, state |-> 100]
ApLink       == [ip |-> ApIP,  state |-> 100]

VARIABLES
  pending,    \* contents of instance/pending_wifi.json
  lockFile,   \* instance/wifi_switch.lock exists
  lockHeld,   \* pid holding the flock on it, 0 when nobody does
  cooldown,   \* age in seconds of instance/sta_recent_ok, -1 when absent
  profiles,   \* NetworkManager connection profiles, by name
  copies,     \* how many saved profiles carry each STA name
  active,     \* profiles active on IFACE
  link,       \* [ip, state] of IFACE
  timer,      \* firepi-softap-timer.timer is armed
  pc,         \* position of each firepi-wifi-switch.sh process
  SSID, PSK,  \* its shell variables
  IP,         \* the address its current poll has read (line 42)
  i,          \* its loop variable
  sawGood,    \* one of its polls passed the test of line 45
  rc,         \* exit status of the run that exited last, -1 when none has
  wpc,        \* position of the firepi-wifi-online.sh process
  wsa,        \* position of the windowed firepi-softap.sh process
  mac,        \* /sys/class/net/$IFACE/address, as its characters
  serial,     \* the Serial value of /proc/cpuinfo, as its characters
  pskFile,    \* contents of /var/lib/firepi/ap_psk, <<>> when absent or empty
  apId,       \* the SSID and PSK each firepi-softap.sh variant derived last
  calls,      \* how often each variant has derived them
  boots,      \* reboots so far
  ppc,        \* position of waitForRebootAndReload's loop in the browser
  seenDown,   \* its variable of that name
  everFailed, \* a probe of this loop has failed (history)
  probes,     \* probes finished so far, counted up to MaxProbes
  reloads,    \* calls of location.reload()
  nav,        \* where the browser was sent: "none", "origin", "host"
  obs,        \* whether the device answered at the origin / at its hostname
              \* when the last probe was made
  upc,        \* position of wifi.js connect()
  form,       \* the ssid and psk connect() posts
  last,       \* how the last fetch ended and what pingOnce made of it
  inflight,   \* health requests sent and not yet resolved
  ctl,        \* the last `firepi-softap.sh start`: script, exit status, whether
              \* it printed "SoftAP up"
  starts,     \* `firepi-softap.sh start` calls so far
  armedBy,    \* the start whose firepi-softap-timer unit is pending
  upBy,       \* the start that brought up the AP now active
  bpc,        \* position of the boot-time online check
  bvar,       \* which of its two scripts runs
  bi,         \* polls of the global state done in its loop
  bres,       \* how it ended: "none", "exit", "started"
  gtext       \* the global state text it read last

files  == <<pending, lockFile, lockHeld, cooldown>>
nm     == <<profiles, copies, active, link>>
hw     == <<mac, serial, pskFile, apId, calls, boots>>
browser == <<ppc, seenDown, everFailed, probes, reloads, nav, obs, upc, form,
            last, inflight>>
apctl  == <<ctl, starts, armedBy, upBy>>
boot   == <<bpc, bvar, bi, bres, gtext>>
aux    == <<hw, browser, apctl, boot>>
locals == <<SSID, PSK, IP, i, sawGood, rc>>
vars   == <<pending, lockFile, lockHeld, cooldown, profiles, copies, active, link, timer,
            pc, SSID, PSK, IP, i, sawGood, rc, wpc, wsa,
            mac, serial, pskFile, apId, calls, boots,
            ppc, seenDown, everFailed, probes, reloads, nav, obs, upc, form,
            last, inflight, ctl, starts, armedBy, upBy,
            bpc, bvar, bi, bres, gtext>>

\* ------------------------------------------------------------- helpers

\* [[ "$IP" == 10.42.* ]]
IsApSubnet(ip) == Len(ip) >= 2 /\ ip[1] = 10 /\ ip[2] = 42

\* [[ -n "$IP" && "$IP" != 10.42.* && "$STATE" -ge 100 ]] && break
LoopBreak(ip, state) == ip # NoIP /\ ~IsApSubnet(ip) /\ state >= 100

RevertCondIpOnly(ip, state) == ip = NoIP \/ IsApSubnet(ip)

\* if [[ -z "$IP" || "$IP" == 10.42.* || "$STATE" -lt 100 ]]
RevertCond(ip, state) == ip = NoIP \/ IsApSubnet(ip) \/ state < 100

\* What NetworkManager holds for the interface.
NmState == [profiles |-> profiles, active |-> active, link |-> link]

AfterDeleteDropsLink(s, names) ==
  [profiles |-> s.profiles \ names,
   active   |-> {},
   link     |-> Disconnected]

\* `nmcli con down X; nmcli con delete X` for every X in names, each `|| true`:
\* a name that is not there changes nothing; the interface goes down only if
\* one of the names was active on it.
AfterDelete(s, names) ==
  [profiles |-> s.profiles \ names,
   active   |-> s.active \ names,
   link     |-> IF s.active \cap names # {} THEN Disconnected ELSE s.link]

NmDelete(names) ==
  LET r == AfterDelete(NmState, names)
  IN /\ profiles' = r.profiles
     /\ copies' = copies
     /\ active' = r.active
     /\ link' = r.link

\* A successful activation of profile n on IFACE: the interface carries one
\* connection, so whatever was active on it is released.
NmActivatedKeep(n) == active \cup {n}
NmActivated(n) == {n}

DeviceInit ==
  /\ pending = NoFile
  /\ lockFile = FALSE
  /\ lockHeld = 0
  /\ cooldown = -1
  /\ profiles = {}
  /\ copies = [n \in StaNames |-> 0]
  /\ active = {}
  /\ link = Disconnected
  /\ timer = FALSE
  /\ pc = [p \in Execs |-> "idle"]
  /\ SSID = [p \in Execs |-> ""]
  /\ PSK = [p \in Execs |-> ""]
  /\ IP = [p \in Execs |-> NoIP]
  /\ i = [p \in Execs |-> 0]
  /\ sawGood = [p \in Execs |-> FALSE]
  /\ rc = -1
  /\ wpc = "idle"
  /\ wsa = "idle"

\* ------------------------------------------ firepi-softap.sh (AP identity)

\* Text is modelled as its sequence of characters.
HexUpper(c) ==
  CASE c = "a" -> "A" [] c = "b" -> "B" [] c = "c" -> "C"
    [] c = "d" -> "D" [] c = "e" -> "E" [] c = "f" -> "F"
    [] OTHER -> c

\* tr '[:lower:]' '[:upper:]'
Upper(s) == [k \in 1..Len(s) |-> HexUpper(s[k])]

\* tr -d ':' and ${MAC//:/}
StripColons(s) == SelectSeq(s, LAMBDA c : c # ":")

\* ${s: -n}: the last n characters, empty when s is shorter than n.
LastN(s, n) == IF Len(s) < n THEN <<>> ELSE SubSeq(s, Len(s) - n + 1, Len(s))

\* ${s:off:len}
Substr(s, off, len) ==
  SubSeq(s, off + 1, IF off + len < Len(s) THEN off + len ELSE Len(s))

\* awk substr($2, length($2)-3): from that position (1 if it is below 1) on.
AwkTail(s, back) ==
  SubSeq(s, IF Len(s) - back < 1 THEN 1 ELSE Len(s) - back, Len(s))

FirePi == <<"F", "i", "r", "e", "P", "i">>
Dash == <<"-">>
Zeros(n) == [k \in 1..n |-> "0"]

\* printf '%06s' "$x" | tr ' ' '0'
PadLeft6(s) == IF Len(s) >= 6 THEN s ELSE Zeros(6 - Len(s)) \o s

Macs ==
  { <<"b", "8", ":", "2", "7", ":", "e", "b", ":", "1", "2", ":", "a", "b", ":", "c", "d">>,
    <<"b", "8", ":", "2", "7", ":", "e", "b", ":", "0", "0", ":", "0", "f", ":", "9", "9">>,
    <<"d", "c", ":", "a", "6", ":", "3", "2", ":", "f", "e", ":", "d", "c", ":", "b", "a">> }
Serials ==
  { <<"1", "0", "0", "0", "0", "0", "0", "0", "a", "1", "b", "2", "c", "3", "d", "4">>,
    <<>> }
RandomPsks ==
  { <<"Q", "x", "7", "k", "P", "2", "m", "Z", "a", "9", "T", "r">>,
    <<"h", "4", "W", "w", "0", "L", "e", "J", "v", "1", "B">> }

Variants == {"startstop", "windowed", "host"}
NoId == [ssid |-> <<>>, psk |-> <<>>]

\* part_011 lines 16-31 (start|stop variant): the last four characters of the
\* serial ("0000" without one), the last six of the upper-cased MAC.
IdStartStop(addr, ser) ==
  LET SER_SUFFIX == IF LastN(ser, 4) = <<>> THEN Zeros(4) ELSE LastN(ser, 4)
      MAC == Upper(StripColons(addr))
      MAC_SUFFIX == PadLeft6(LastN(MAC, 6))
  IN [ssid |-> FirePi \o Dash \o SER_SUFFIX \o Dash \o MAC_SUFFIX,
      psk  |-> FirePi \o MAC_SUFFIX]

IdWindowedOui(addr) ==
  LET HEX == StripColons(addr)
      TAIL_UP == Upper(Substr(HEX, 0, 6))
  IN [ssid |-> FirePi \o Dash \o TAIL_UP,
      psk  |-> FirePi \o TAIL_UP]

\* part_011 lines 104-110 (windowed variant): HEX="${MAC//:/}"; TAIL="${HEX:6:6}"
IdWindowed(addr) ==
  LET HEX == StripColons(addr)
      TAIL_UP == Upper(Substr(HEX, 6, 6))
  IN [ssid |-> FirePi \o Dash \o TAIL_UP,
      psk  |-> FirePi \o TAIL_UP]

PskStoredNever(file, fresh) == fresh

\* host_services/firepi-softap.sh lines 5-8: a PSK is drawn from /dev/urandom
\* only if the file is not there with a size above zero; the file is read back.
PskStored(file, fresh) == IF file = <<>> THEN fresh ELSE file

\* host_services/firepi-softap.sh line 4
IdHost(ser, file) ==
  [ssid |-> FirePi \o Dash \o AwkTail(ser, 3),
   psk  |-> file]

Count(v) == [calls EXCEPT ![v] = IF @ < MaxCalls THEN @ + 1 ELSE @]

\* One run of a variant up to the point where AP_SSID and AP_PSK are set.
DeriveStartStop ==
  /\ apId' = [apId EXCEPT !["startstop"] = IdStartStop(mac, serial)]
  /\ calls' = Count("startstop")
  /\ UNCHANGED <<mac, serial, pskFile, boots>>

DeriveWindowed ==
  /\ apId' = [apId EXCEPT !["windowed"] = IdWindowed(mac)]
  /\ calls' = Count("windowed")
  /\ UNCHANGED <<mac, serial, pskFile, boots>>

DeriveHost ==
  /\ \E fresh \in RandomPsks :
       /\ pskFile' = PskStored(pskFile, fresh)
       /\ apId' = [apId EXCEPT !["host"] = IdHost(serial, pskFile')]
  /\ calls' = Count("host")
  /\ UNCHANGED <<mac, serial, boots>>

\* A reboot: the hardware and the files on disk are what they were.
Reboot ==
  /\ boots < MaxBoots
  /\ boots' = boots + 1
  /\ UNCHANGED <<mac, serial, pskFile, apId, calls>>

\* The texts of `nmcli -t -f STATE g` and `nmcli -t -f WIFI g`, as characters.
Connected    == <<"c","o","n","n","e","c","t","e","d">>
Connecting   == <<"c","o","n","n","e","c","t","i","n","g">>
DisconnectedText == <<"d","i","s">> \o Connected
SiteOnly     == Connected \o <<" ","(","s","i","t","e"," ","o","n","l","y",")">>
LocalOnly    == Connected \o <<" ","(","l","o","c","a","l"," ","o","n","l","y",")">>
Enabled      == <<"e","n","a","b","l","e","d">>
Disabled     == <<"d","i","s","a","b","l","e","d">>
NoText       == <<>>

BootCheckInit ==
  /\ bpc = "off"
  /\ bvar = "none"
  /\ bi = 0
  /\ bres = "none"
  /\ gtext = NoText

NoTimer == [n |-> 0, v |-> "none"]

ApCtlInit ==
  /\ ctl = [v |-> "none", rc |-> 0, said |-> FALSE]
  /\ starts = 0
  /\ armedBy = NoTimer
  /\ upBy = 0

BrowserInit ==
  /\ ppc = "off"
  /\ seenDown = FALSE
  /\ everFailed = FALSE
  /\ probes = 0
  /\ reloads = 0
  /\ nav = "none"
  /\ obs = [origin |-> TRUE, host |-> TRUE]
  /\ upc = "idle"
  /\ form = [ssid |-> "", psk |-> ""]
  /\ last = [out |-> "none", ok |-> "false"]
  /\ inflight = 0

HwInit ==
  /\ pskFile = <<>>
  /\ apId = [v \in Variants |-> NoId]
  /\ calls = [v \in Variants |-> 0]
  /\ boots = 0

Init ==
  /\ DeviceInit
  /\ HwInit
  /\ BrowserInit
  /\ ApCtlInit
  /\ BootCheckInit
  /\ mac = CHOOSE m \in Macs : m[10] = "1"
  /\ serial = CHOOSE s \in Serials : s # <<>>

\* The derivation of the AP identity on every hardware of the bounded sets,
\* run any number of times, in any order of the variants, across reboots.
IdInit ==
  /\ DeviceInit
  /\ HwInit
  /\ BrowserInit
  /\ ApCtlInit
  /\ BootCheckInit
  /\ mac \in Macs
  /\ serial \in Serials

IdNext ==
  /\ DeriveStartStop \/ DeriveWindowed \/ DeriveHost \/ Reboot
  /\ UNCHANGED <<files, nm, timer, pc, locals, wpc, wsa, browser, apctl, boot>>

IdSpec == IdInit /\ [][IdNext]_vars

\* ------------------------------------------------ firepi-softap.sh (AP)

\* start, lines 41-55: Hotspot and FirePiAP are taken down and deleted, FirePiAP
\* is added again and `nmcli con up FirePiAP` brings it up; the expiry unit is
\* then scheduled (an armed unit of that name stays as it is). A failing
\* `con up` ends the script (set -e) with the radio released.
SoftapStart ==
  /\ profiles' = (profiles \ ApNames) \cup {AP}
  /\ copies' = copies
  /\ \/ /\ active' = NmActivated(AP)
        /\ link' = ApLink
        /\ timer' = TRUE
     \/ /\ active' = {}
        /\ link' = Disconnected
        /\ timer' = timer

\* stop, lines 58-60: down and delete FirePiAP; `systemctl stop` names the
\* .service unit, the armed .timer unit is not touched.
StopResult(s) == AfterDelete(s, {AP})
SoftapStop == NmDelete({AP})

\* ------------------------------- firepi-softap.sh, windowed variant (main)

\* The STATE column of `nmcli -t -f DEVICE,STATE dev status` for IFACE.
DevStatusText(state) ==
  CASE state = 100 -> "connected"
    [] state = 80  -> "connecting (getting IP configuration)"
    [] state = 30  -> "disconnected"

wifi_connectedNever == FALSE

\* wifi_connected: grep -q "^${ifc}:connected". Of the three texts only
\* "connected" begins with it; an interface that carries the AP reports it too.
wifi_connected == DevStatusText(link.state) = "connected"

\* main up to `nmcli -w 15 con up FirePiAP`: nothing is done on a connected
\* interface; otherwise the profile is added if missing, modified and brought
\* up, and the script goes to sleep for the window (a failing `con up` ends it).
WinStart ==
  /\ wsa = "idle"
  /\ IF wifi_connected
       THEN UNCHANGED <<nm, wsa>>
       ELSE /\ profiles' = profiles \cup {AP}
            /\ copies' = copies
            /\ \/ /\ active' = NmActivated(AP)
                  /\ link' = ApLink
                  /\ wsa' = "sleep"
               \/ /\ active' = {}
                  /\ link' = Disconnected
                  /\ wsa' = "idle"
  /\ UNCHANGED <<files, timer, pc, locals, wpc, aux>>

\* main after the sleep: a connected interface is left as it is; otherwise
\* `nmcli -w 10 con down FirePiAP || true`.
WinExpire ==
  /\ wsa = "sleep"
  /\ IF wifi_connected
       THEN UNCHANGED nm
       ELSE /\ active' = active \ {AP}
            /\ link' = IF AP \in active THEN Disconnected ELSE link
            /\ UNCHANGED <<profiles, copies>>
  /\ wsa' = "idle"
  /\ UNCHANGED <<files, timer, pc, locals, wpc, aux>>

\* ------------------------------------------- firepi-wifi-switch.sh (run)

ExitKeepsLock(p, code) ==
  /\ pc' = [pc EXCEPT ![p] = "idle"]
  /\ rc' = code
  /\ lockHeld' = lockHeld
  /\ SSID' = [SSID EXCEPT ![p] = ""]
  /\ PSK' = [PSK EXCEPT ![p] = ""]
  /\ IP' = [IP EXCEPT ![p] = NoIP]
  /\ i' = [i EXCEPT ![p] = 0]
  /\ sawGood' = [sawGood EXCEPT ![p] = FALSE]

\* The process exits with status `code`: bash closes fd 9, which releases the
\* flock if it holds it, and its shell variables are gone; a later trigger
\* starts a new process.
Exit(p, code) ==
  /\ pc' = [pc EXCEPT ![p] = "idle"]
  /\ rc' = code
  /\ lockHeld' = IF lockHeld = p THEN 0 ELSE lockHeld
  /\ SSID' = [SSID EXCEPT ![p] = ""]
  /\ PSK' = [PSK EXCEPT ![p] = ""]
  /\ IP' = [IP EXCEPT ![p] = NoIP]
  /\ i' = [i EXCEPT ![p] = 0]
  /\ sawGood' = [sawGood EXCEPT ![p] = FALSE]

\* flock -n 9 succeeds iff no other open file description holds the lock.
FlockFreeAlways == TRUE
FlockFree == lockHeld = 0

ContendedCleanup(p) ==
  /\ Exit(p, 0)
  /\ pending' = NoFile
  /\ UNCHANGED <<cooldown, nm, timer>>

\* Line 10, lock busy: { echo "another switch in progress"; exit 0; }
Contended(p) ==
  /\ Exit(p, 0)
  /\ UNCHANGED <<pending, cooldown, nm, timer>>

\* Lines 3-10: the script starts, `exec 9>"$LOCK"` creates the lock file and
\* `flock -n 9` takes the lock or the script exits 0.
ExecStart(p) ==
  /\ pc[p] = "idle"
  /\ lockFile' = TRUE
  /\ IF FlockFree
       THEN /\ lockHeld' = p
            /\ pc' = [pc EXCEPT ![p] = "read"]
            /\ UNCHANGED <<pending, cooldown, nm, timer, locals>>
       ELSE Contended(p)
  /\ UNCHANGED <<wpc, wsa, aux>>

DiscardKeepsFile(p) ==
  /\ pending' = pending
  /\ Exit(p, 2)

\* Line 19: [[ -z "$SSID" ]] && { echo "no SSID in pending"; rm -f "$PENDING"; exit 2; }
Discard(p) ==
  /\ pending' = NoFile
  /\ Exit(p, 2)

\* Lines 12-19: no pending file: exit 2. Otherwise SSID and PSK are read from
\* it; an empty SSID discards the file and exits 2.
ExecRead(p) ==
  /\ pc[p] = "read"
  /\ IF ~pending.exists
       THEN /\ Exit(p, 2)
            /\ UNCHANGED pending
       ELSE IF pending.ssid = ""
              THEN Discard(p)
              ELSE /\ SSID' = [SSID EXCEPT ![p] = pending.ssid]
                   /\ PSK' = [PSK EXCEPT ![p] = pending.psk]
                   /\ pc' = [pc EXCEPT ![p] = "teardown"]
                   /\ UNCHANGED <<pending, rc, lockHeld, IP, i, sawGood>>
  /\ UNCHANGED <<lockFile, cooldown, nm, timer, wpc, wsa, aux>>

\* Lines 21-26: autoconnect off, down and delete for FirePiAP and Hotspot.
ExecTeardown(p) ==
  /\ pc[p] = "teardown"
  /\ NmDelete(ApNames)
  /\ pc' = [pc EXCEPT ![p] = "connect"]
  /\ UNCHANGED <<files, timer, locals, wpc, wsa, aux>>

\* Line 32 or 34 returned non-zero under set -e: the script ends there.
ConnectFailed(p) ==
  /\ Exit(p, 4)
  /\ UNCHANGED pending

ConLookupNone(p) == ""

\* Lines 28-29: CON="FirePiSTA-${SSID}"; nmcli con show "$CON" ... || CON=""
ConLookup(p) == IF StaName(SSID[p]) \in profiles THEN StaName(SSID[p]) ELSE ""

\* Lines 28-39: CON is the profile named after the SSID if `nmcli con show`
\* finds it. With none, `nmcli -w 20 dev wifi connect` (with or without the
\* password) adds a profile of that name and activates it, or fails (wrong PSK,
\* SSID out of range, leaving the new profile behind or not). An existing
\* profile is only modified (autoconnect, priority), not activated.
ExecConnect(p) ==
  /\ pc[p] = "connect"
  /\ LET CON == ConLookup(p)
         new == StaName(SSID[p])
     IN IF CON = ""
          THEN \/ /\ profiles' = profiles \cup {new}
                  /\ copies' = [copies EXCEPT ![new] = @ + 1]
                  /\ active' = NmActivated(new)
                  /\ link' = StaLink
                  /\ i' = [i EXCEPT ![p] = 1]
                  /\ pc' = [pc EXCEPT ![p] = "poll"]
                  /\ UNCHANGED <<pending, SSID, PSK, IP, rc, lockHeld, sawGood>>
               \/ /\ \E kept \in BOOLEAN :
                       IF kept THEN /\ profiles' = profiles \cup {new}
                                    /\ copies' = [copies EXCEPT ![new] = @ + 1]
                               ELSE UNCHANGED <<profiles, copies>>
                  /\ active' = {}
                  /\ link' = Disconnected
                  /\ ConnectFailed(p)
          ELSE /\ i' = [i EXCEPT ![p] = 1]
               /\ pc' = [pc EXCEPT ![p] = "poll"]
               /\ UNCHANGED <<pending, nm, SSID, PSK, IP, rc, lockHeld, sawGood>>
  /\ UNCHANGED <<lockFile, cooldown, timer, wpc, wsa, aux>>

\* Line 42: IP=$(nmcli -g IP4.ADDRESS dev show "$IFACE" | head -1 | cut -d/ -f1)
ExecPollIp(p) ==
  /\ pc[p] = "poll"
  /\ IP' = [IP EXCEPT ![p] = link.ip]
  /\ pc' = [pc EXCEPT ![p] = "poll_state"]
  /\ UNCHANGED <<files, nm, timer, SSID, PSK, i, sawGood, rc, wpc, wsa, aux>>

LoopNeverDone(p) == FALSE

\* Line 41: for i in {1..20}: the iteration with i = 20 is the last.
LoopDone(p) == i[p] >= PollBudget

\* Lines 43-49: STATE is read; a good address breaks the loop, otherwise the
\* loop goes on and ends after i = 20; line 49 then picks the branch from the
\* same IP and STATE.
ExecPollState(p) ==
  /\ pc[p] = "poll_state"
  /\ LET state == link.state
     IN IF LoopBreak(IP[p], state) \/ LoopDone(p)
          THEN /\ pc' = [pc EXCEPT ![p] = IF RevertCond(IP[p], state)
                                            THEN "revert" ELSE "ok_stop"]
               /\ sawGood' = [sawGood EXCEPT ![p] = LoopBreak(IP[p], state)]
               /\ i' = i
          ELSE /\ pc' = [pc EXCEPT ![p] = "poll"]
               /\ i' = [i EXCEPT ![p] = i[p] + 1]
               /\ sawGood' = sawGood
  /\ UNCHANGED <<files, nm, timer, SSID, PSK, IP, rc, wpc, wsa, aux>>

\* Line 51: firepi-softap.sh start 30min || true
ExecRevertStart(p) ==
  /\ pc[p] = "revert"
  /\ SoftapStart
  /\ pc' = [pc EXCEPT ![p] = "rv_finish"]
  /\ UNCHANGED <<files, locals, wpc, wsa, aux>>

MarkerAfterRevertTouched(old) == 0

\* Lines 49-54: the revert branch has no `touch "$COOLDOWN"`.
MarkerAfterRevert(old) == old

\* Lines 52-53: rm -f "$PENDING" || true; exit 1
ExecRevertFinish(p) ==
  /\ pc[p] = "rv_finish"
  /\ pending' = NoFile
  /\ cooldown' = MarkerAfterRevert(cooldown)
  /\ Exit(p, 1)
  /\ UNCHANGED <<lockFile, nm, timer, wpc, wsa, aux>>

\* Line 57: firepi-softap.sh stop || true
ExecStop(p) ==
  /\ pc[p] = "ok_stop"
  /\ SoftapStop
  /\ pc' = [pc EXCEPT ![p] = "ok_finish"]
  /\ UNCHANGED <<files, timer, locals, wpc, wsa, aux>>

\* Lines 58-60: rm -f "$PENDING"; touch "$COOLDOWN"; exit 0
ExecSuccessFinish(p) ==
  /\ pc[p] = "ok_finish"
  /\ pending' = NoFile
  /\ cooldown' = 0
  /\ Exit(p, 0)
  /\ UNCHANGED <<lockFile, nm, timer, wpc, wsa, aux>>

\* ------------------------------------------ firepi-wifi-online.sh (tick)

\* `nmcli -t -f NAME,TYPE,DEVICE con show --active`: one NAME:TYPE:DEVICE line
\* per active connection, as its three fields.
ActiveLines == {<<n, "802-11-wireless", IFACE>> : n \in active}

\* grep -qE ":wifi$": the text after the line's last colon is "wifi".
GrepWifiAtEnd(line) == line[3] = "wifi"

\* is_sta_up, lines 16-23.
is_sta_up ==
  /\ \E line \in ActiveLines : GrepWifiAtEnd(line)
  /\ link.ip # NoIP
  /\ ~IsApSubnet(link.ip)
  /\ link.state >= 100

WdGuardPendingOnly == pending.exists

\* Lines 13-14: the lock file or the pending file is there.
WdGuard == lockFile \/ pending.exists

WdCooldownInclusive == cooldown # -1 /\ cooldown <= CooldownSecs

\* Lines 25-32: the cooldown file is there and younger than 300 s.
WdCooldownFresh == cooldown # -1 /\ cooldown < CooldownSecs

\* Lines 1-11: a tick begins.
WdFrameClearsLock ==
  /\ lockFile' = FALSE
  /\ UNCHANGED <<pending, lockHeld, cooldown>>

\* The watchdog opens none of the files of instance/ but its log: $LOCK,
\* $PENDING and $COOLDOWN are tested with [[ -f ]] and stat only.
WdFrame == UNCHANGED files

WdStart ==
  /\ wpc = "idle"
  /\ wpc' = "check"
  /\ WdFrame
  /\ UNCHANGED <<nm, timer, pc, locals, wsa, aux>>

\* Lines 13-14: "switch lock present" / "pending creds exist": exit 0.
WdCheck ==
  /\ wpc = "check"
  /\ wpc' = IF WdGuard THEN "skip_guard" ELSE "cool"
  /\ WdFrame
  /\ UNCHANGED <<nm, timer, pc, locals, wsa, aux>>

\* Lines 25-32: "recent STA success": exit 0.
WdCooldown ==
  /\ wpc = "cool"
  /\ wpc' = IF WdCooldownFresh THEN "skip_cool" ELSE "sta"
  /\ WdFrame
  /\ UNCHANGED <<nm, timer, pc, locals, wsa, aux>>

\* Lines 34-39: "STA looks good; no AP needed": exit 0; else go on to line 40.
WdSta ==
  /\ wpc = "sta"
  /\ wpc' = IF is_sta_up THEN "skip_sta" ELSE "start"
  /\ WdFrame
  /\ UNCHANGED <<nm, timer, pc, locals, wsa, aux>>

WdSkipped == wpc \in {"skip_guard", "skip_cool", "skip_sta"}

\* Lines 13, 14, 30, 36: exit 0 without a call to firepi-softap.sh.
WdExit ==
  /\ WdSkipped
  /\ wpc' = "idle"
  /\ WdFrame
  /\ UNCHANGED <<nm, timer, pc, locals, wsa, aux>>

\* Line 40: firepi-softap.sh start 30min || true
WdStartAp ==
  /\ wpc = "start"
  /\ SoftapStart
  /\ wpc' = "idle"
  /\ WdFrame
  /\ UNCHANGED <<pc, locals, wsa, aux>>

\* ------------------------------------------------------------ environment

\* The backend answers POST /api/wifi/connect by writing the pending file.
Submit(s, k) ==
  /\ pending' = PendingFile(s, k)
  /\ UNCHANGED <<lockFile, lockHeld, cooldown, nm, timer, pc, locals, wpc, wsa, aux>>

\* NetworkManager autoconnects a saved STA profile when the radio is free.
StaAuto ==
  /\ active = {}
  /\ \E n \in profiles \cap StaNames :
       /\ active' = NmActivated(n)
       /\ link' = IpCheck
  /\ UNCHANGED <<files, profiles, copies, timer, pc, locals, wpc, wsa, aux>>

\* The activation completes.
StaSettle ==
  /\ link = IpCheck
  /\ link' = StaLink
  /\ UNCHANGED <<files, profiles, copies, active, timer, pc, locals, wpc, wsa, aux>>

\* The user's network goes away (or rejects the device).
StaDrop ==
  /\ active \cap StaNames # {}
  /\ active' = {}
  /\ link' = Disconnected
  /\ UNCHANGED <<files, profiles, copies, timer, pc, locals, wpc, wsa, aux>>

\* Time passes: the cooldown file ages (ages past 300 s are all alike).
Age ==
  /\ cooldown # -1
  /\ cooldown < CooldownSecs
  /\ cooldown' = cooldown + AgeStep
  /\ UNCHANGED <<pending, lockFile, lockHeld, nm, timer, pc, locals, wpc, wsa, aux>>

\* firepi-softap-timer fires: it runs `firepi-softap.sh stop`.
TimerFire ==
  /\ timer
  /\ SoftapStop
  /\ timer' = FALSE
  /\ UNCHANGED <<files, pc, locals, wpc, wsa, aux>>

Exec(p) ==
  \/ ExecStart(p) \/ ExecRead(p) \/ ExecTeardown(p) \/ ExecConnect(p)
  \/ ExecPollIp(p) \/ ExecPollState(p) \/ ExecRevertStart(p) \/ ExecRevertFinish(p)
  \/ ExecStop(p) \/ ExecSuccessFinish(p)

Watchdog == WdStart \/ WdCheck \/ WdCooldown \/ WdSta \/ WdExit \/ WdStartAp

Env ==
  \/ \E s \in Ssids, k \in Psks : Submit(s, k)
  \/ StaAuto \/ StaSettle \/ StaDrop \/ Age \/ TimerFire

Next == (\E p \in Execs : Exec(p)) \/ Watchdog \/ Env

Spec == Init /\ [][Next]_vars

\* The same system with the windowed AP script run beside it (started by the
\* boot-time check through firepi-softap@.service).
Windowed == WinStart \/ WinExpire

WinNext == Next \/ Windowed

WinSpec == Init /\ [][WinNext]_vars

\* ---------------------------------- firepi-wifi-online.sh (boot-time check)

\* for i in {1..6} (wifi_scripts), for i in {1..12} (host_services)
BootPolls == 6
HostPolls == 12
Polls(v) == IF v = "host" THEN HostPolls ELSE BootPolls

\* NetworkManager's global state for the one Wi-Fi interface: an activated
\* STA connection is "connected", or "connected (site only)" without
\* internet; an interface that only carries the shared AP has local or site
\* connectivity.
NmGlobal ==
  CASE link.state = 30 -> {DisconnectedText}
    [] link.state = 80 -> {Connecting}
    [] link.state = 100 /\ AP \in active -> {LocalOnly, SiteOnly}
    [] OTHER -> {Connected, SiteOnly}

\* The radio switch; it cannot be off under a connection.
NmWifi == IF link.state = 30 THEN {Enabled, Disabled} ELSE {Enabled}

\* grep -q pat: pat occurs somewhere in the line.
Grep(pat, line) ==
  \E k \in 1..(Len(line) - Len(pat) + 1) :
    SubSeq(line, k, k + Len(pat) - 1) = pat

\* The script starts (sleep 4; rescan).
BootCheckStart ==
  /\ bpc \in {"off", "done"}
  /\ \E v \in {"boot", "host"} :
       /\ bvar' = v
       /\ bpc' = IF v = "host" THEN "first" ELSE "poll"
  /\ bi' = 0
  /\ bres' = "none"
  /\ gtext' = NoText
  /\ UNCHANGED <<files, nm, timer, pc, locals, wpc, wsa, hw, browser, apctl>>

\* host_services/firepi-wifi-online.sh lines 10-12:
\* if nmcli -t -f WIFI g | grep -q enabled && nmcli -t -f STATE g | grep -q connected
HostFirst ==
  /\ bpc = "first"
  /\ \E w \in NmWifi, s \in NmGlobal :
       /\ gtext' = s
       /\ IF Grep(Enabled, w) /\ Grep(Connected, s)
            THEN bpc' = "done" /\ bres' = "exit"
            ELSE bpc' = "poll" /\ bres' = bres
  /\ UNCHANGED <<bvar, bi>>
  /\ UNCHANGED <<files, nm, timer, pc, locals, wpc, wsa, hw, browser, apctl>>

\* One pass of the loop: [[ "$STATE" == "connected" ]] && exit 0; after the
\* last pass, systemctl start firepi-softap@...service.
BootPoll ==
  /\ bpc = "poll"
  /\ \E s \in NmGlobal :
       /\ gtext' = s
       /\ bi' = bi + 1
       /\ IF s = Connected
            THEN bpc' = "done" /\ bres' = "exit"
            ELSE IF bi + 1 >= Polls(bvar)
                   THEN bpc' = "done" /\ bres' = "started"
                   ELSE bpc' = "poll" /\ bres' = bres
  /\ UNCHANGED bvar
  /\ UNCHANGED <<files, nm, timer, pc, locals, wpc, wsa, hw, browser, apctl>>

BootCheck == BootCheckStart \/ HostFirst \/ BootPoll

\* A device at boot: a station profile may have been saved on an earlier day.
BootInit ==
  /\ pending = NoFile
  /\ lockFile \in BOOLEAN
  /\ lockHeld = 0
  /\ cooldown = -1
  /\ profiles \in SUBSET StaNames
  /\ copies = [n \in StaNames |-> IF n \in profiles THEN 1 ELSE 0]
  /\ active = {}
  /\ link = Disconnected
  /\ timer = FALSE
  /\ pc = [p \in Execs |-> "idle"]
  /\ SSID = [p \in Execs |-> ""]
  /\ PSK = [p \in Execs |-> ""]
  /\ IP = [p \in Execs |-> NoIP]
  /\ i = [p \in Execs |-> 0]
  /\ sawGood = [p \in Execs |-> FALSE]
  /\ rc = -1
  /\ wpc = "idle"
  /\ wsa = "idle"
  /\ HwInit
  /\ mac = CHOOSE m \in Macs : m[10] = "1"
  /\ serial = CHOOSE s \in Serials : s # <<>>
  /\ BrowserInit
  /\ ApCtlInit
  /\ BootCheckInit

BootNext == BootCheck \/ Windowed \/ StaAuto \/ StaSettle \/ StaDrop

\* What runs at boot: the online check and the windowed AP script, while
\* NetworkManager connects and loses the saved networks.
BootSpec == BootInit /\ [][BootNext]_vars

\* ------------------------------- firepi-softap.sh start|stop, both scripts

HOTSPOT == "Hotspot"

\* systemd-run --unit firepi-softap-timer --on-active=...: a transient unit of
\* that name that is still pending makes systemd-run fail ("already exists")
\* and stay as it is; otherwise the new timer is armed for this start.
SystemdRun(n, v) == IF timer THEN armedBy ELSE [n |-> n, v |-> v]

\* wifi_scripts/firepi-softap.sh start (set -e): the old AP profiles go, FirePiAP
\* is added and brought up. A failing `nmcli con up` ends the script there
\* with nmcli's status; after a success "SoftAP up" is printed and the timer
\* is requested, `|| true`.
CtlStart ==
  /\ starts < MaxStarts
  /\ starts' = starts + 1
  /\ SoftapStart
  /\ IF AP \in active'
       THEN /\ ctl' = [v |-> "startstop", rc |-> 0, said |-> TRUE]
            /\ armedBy' = SystemdRun(starts', "startstop")
            /\ upBy' = starts'
       ELSE /\ ctl' = [v |-> "startstop", rc |-> 4, said |-> FALSE]
            /\ armedBy' = armedBy
            /\ upBy' = 0
  /\ UNCHANGED <<files, pc, locals, wpc, wsa, hw, browser, boot>>

\* wifi_scripts/firepi-softap.sh stop
CtlStop ==
  /\ SoftapStop
  /\ upBy' = IF AP \in active THEN 0 ELSE upBy
  /\ UNCHANGED <<files, timer, pc, locals, wpc, wsa, hw, browser, boot, ctl, starts, armedBy>>

\* host_services/firepi-softap.sh start (set -euo pipefail): wifi profiles
\* named FirePi-* are deleted (the model has none); `nmcli dev wifi hotspot`
\* creates and activates Hotspot, `|| true`; "SoftAP up" is printed whatever
\* happened; systemd-run is not guarded, so its failure is the exit status.
HostStart ==
  /\ starts < MaxStarts
  /\ starts' = starts + 1
  /\ copies' = copies
  /\ \/ /\ profiles' = profiles \cup {HOTSPOT}
        /\ active' = NmActivated(HOTSPOT)
        /\ link' = ApLink
        /\ upBy' = starts'
     \/ /\ profiles' = profiles
        /\ active' = active \ ApNames
        /\ link' = IF active \cap ApNames # {} THEN Disconnected ELSE link
        /\ upBy' = 0
  /\ ctl' = [v |-> "host", rc |-> IF timer THEN 1 ELSE 0, said |-> TRUE]
  /\ armedBy' = SystemdRun(starts', "host")
  /\ timer' = TRUE
  /\ UNCHANGED <<files, pc, locals, wpc, wsa, hw, browser, boot>>

\* host_services/firepi-softap.sh stop: Hotspot down and deleted, each
\* `|| true`; `systemctl stop firepi-softap-timer.service` names the service.
HostStop ==
  /\ NmDelete({HOTSPOT})
  /\ upBy' = IF HOTSPOT \in active THEN 0 ELSE upBy
  /\ UNCHANGED <<files, timer, pc, locals, wpc, wsa, hw, browser, boot, ctl, starts, armedBy>>

\* The pending firepi-softap-timer elapses and runs `stop` of the script
\* that armed it.
CtlTimerFire ==
  /\ timer
  /\ timer' = FALSE
  /\ armedBy' = NoTimer
  /\ NmDelete(IF armedBy.v = "host" THEN {HOTSPOT} ELSE {AP})
  /\ upBy' = IF active \cap (IF armedBy.v = "host" THEN {HOTSPOT} ELSE {AP}) # {}
              THEN 0 ELSE upBy
  /\ UNCHANGED <<files, pc, locals, wpc, wsa, hw, browser, boot, ctl, starts>>

ApNext == CtlStart \/ CtlStop \/ HostStart \/ HostStop \/ CtlTimerFire

\* The AP controller alone: any sequence of start and stop calls of the two
\* scripts, with the expiry timer firing at any time while it is pending.
ApSpec == Init /\ [][ApNext]_vars

\* ------------------------------------------ admin.js, wifi.js (the browser)

SeenDownAtStartTrue == TRUE

\* let seenDown = false;
SeenDownAtStart == FALSE

AfterReloadLoops == "wait"

\* location.reload(); return;  -- no further setTimeout(loop, 2000)
AfterReload == "reloaded"

\* waitForRebootAndReload(): seenDown is cleared and loop() issues the first
\* pingOnce at once.
StartProber ==
  /\ ppc' = "ping"
  /\ seenDown' = SeenDownAtStart
  /\ everFailed' = FALSE
  /\ probes' = 0
  /\ inflight' = inflight + 1
  /\ UNCHANGED <<reloads, nav, obs, upc, form, last>>

\* doReboot(): POST /api/admin/reboot; the prober starts unless the request
\* throws ("Reboot request failed").
DoReboot ==
  /\ ppc = "off"
  /\ \/ StartProber
     \/ UNCHANGED browser
  /\ UNCHANGED <<files, nm, timer, pc, locals, wpc, wsa, hw, apctl, boot>>

\* doUpdate(): POST /api/admin/update; with status ok the reboot is requested
\* (errors swallowed) and the prober starts; otherwise it does not.
DoUpdate ==
  /\ ppc = "off"
  /\ \/ StartProber
     \/ UNCHANGED browser
  /\ UNCHANGED <<files, nm, timer, pc, locals, wpc, wsa, hw, apctl, boot>>

\* How fetch(`/api/health?cb=...`) can end. The URL is relative, so the request
\* goes to the page's own origin only: a device that answers there gives a
\* response with r.ok; otherwise the response has a non-OK status, or fetch
\* rejects with a network error, or with AbortError when ctrl.abort() fires
\* after timeoutMs.
Fetch(reach) ==
  IF reach.origin THEN {"ok"} ELSE {"status", "neterr", "abort"}

Rejects == {"neterr", "abort"}

\* What the promise of pingOnce settles to: "true" or "false" when it
\* resolves, "throw" when it rejects.
Bool(b) == IF b THEN "true" ELSE "false"

pingOnceNoCatch(out) ==
  IF out \in Rejects THEN "throw" ELSE Bool(out = "ok")

\* pingOnce: try { return r.ok } catch { return false } finally { clearTimeout }
pingOnce(out) ==
  IF out \in Rejects THEN "false" ELSE Bool(out = "ok")

\* One pass of loop: the probe returns and the three-way branch is taken.
PingDone ==
  /\ ppc = "ping"
  /\ \E reach \in [origin : BOOLEAN, host : BOOLEAN] :
     \E out \in Fetch(reach) :
       LET ok == pingOnce(out)
       IN /\ obs' = reach
          /\ last' = [out |-> out, ok |-> ok]
          /\ inflight' = inflight - 1
          /\ everFailed' = (everFailed \/ ok # "true")
          /\ probes' = IF probes < MaxProbes THEN probes + 1 ELSE probes
          /\ IF ok = "throw"
               THEN \* the rejection leaves loop: no reload, no setTimeout
                    /\ ppc' = "dead"
                    /\ UNCHANGED <<seenDown, reloads, nav>>
               ELSE IF ok = "false"
               THEN /\ seenDown' = TRUE
                    /\ ppc' = "wait"
                    /\ UNCHANGED <<reloads, nav>>
               ELSE IF seenDown
                      THEN /\ reloads' = reloads + 1
                           /\ nav' = "origin"
                           /\ ppc' = AfterReload
                           /\ UNCHANGED seenDown
                      ELSE /\ ppc' = "wait"
                           /\ UNCHANGED <<seenDown, reloads, nav>>
  /\ UNCHANGED <<upc, form>>
  /\ UNCHANGED <<files, nm, timer, pc, locals, wpc, wsa, hw, apctl, boot>>

\* setTimeout(loop, 2000) fires.
TimerLoop ==
  /\ ppc = "wait"
  /\ ppc' = "ping"
  /\ inflight' = inflight + 1
  /\ UNCHANGED <<seenDown, everFailed, probes, reloads, nav, obs, upc, form, last>>
  /\ UNCHANGED <<files, nm, timer, pc, locals, wpc, wsa, hw, apctl, boot>>

\* What the user typed into #wifiSsid and #wifiPsk.
FormSsids == {"", "  ", " home "}
FormPsks == {"", "pw"}

\* String.prototype.trim()
Trim(s) ==
  CASE s = "  " -> ""
    [] s = " home " -> "home"
    [] OTHER -> s

\* connect(), lines 47-57: an empty trimmed ssid ends it with a toast;
\* otherwise the button is disabled and the POST is sent.
ConnectClick ==
  /\ upc = "idle"
  /\ \E s \in FormSsids, k \in FormPsks :
       IF Trim(s) = ""
         THEN UNCHANGED <<upc, form>>
         ELSE /\ upc' = "posting"
              /\ form' = [ssid |-> Trim(s), psk |-> Trim(k)]
  /\ UNCHANGED <<ppc, seenDown, everFailed, probes, reloads, nav, obs, last, inflight>>
  /\ UNCHANGED <<files, nm, timer, pc, locals, wpc, wsa, hw, apctl, boot>>

\* connect(), lines 57-64: the backend accepts the credentials (it has written
\* the pending file; status ok, 'Connected. AP will close if active.'), or it
\* answers with an error, or the request throws ('Connect failed').
PostDone ==
  /\ upc = "posting"
  /\ \/ /\ pending' = PendingFile(form.ssid, form.psk)
        /\ upc' = "ok"
     \/ /\ UNCHANGED pending
        /\ upc' = "failed"
  /\ UNCHANGED <<ppc, seenDown, everFailed, probes, reloads, nav, obs, form, last, inflight>>
  /\ UNCHANGED <<lockFile, lockHeld, cooldown, nm, timer, pc, locals, wpc, wsa, hw, apctl, boot>>

\* connect(), lines 65-69: finally { hideProgress(); the button is enabled
\* again; setTimeout(refreshStatus, 1500) }.
ConnectFinally ==
  /\ upc \in {"ok", "failed"}
  /\ upc' = "idle"
  /\ UNCHANGED <<ppc, seenDown, everFailed, probes, reloads, nav, obs, form, last, inflight>>
  /\ UNCHANGED <<files, nm, timer, pc, locals, wpc, wsa, hw, apctl, boot>>

Prober == PingDone \/ TimerLoop

BrowserNext ==
  \/ DoReboot \/ DoUpdate \/ Prober
  \/ ConnectClick \/ PostDone \/ ConnectFinally

\* The browser session beside a device whose answers to the probes are free.
BrowserSpec == Init /\ [][BrowserNext]_vars

\* A pending probe returns (2.5 s abort at the latest) and a pending timeout
\* fires; a pending POST is answered. What the user clicks is not forced.
BrowserFair ==
  /\ BrowserSpec
  /\ WF_vars(Prober)
  /\ WF_vars(PostDone \/ ConnectFinally)

\* The executor steps that follow a start: a started script runs to its end.
ExecRun(p) ==
  \/ ExecRead(p) \/ ExecTeardown(p) \/ ExecConnect(p)
  \/ ExecPollIp(p) \/ ExecPollState(p) \/ ExecRevertStart(p)
  \/ ExecRevertFinish(p) \/ ExecStop(p) \/ ExecSuccessFinish(p)

\* Scheduling: the watchdog timer keeps ticking and every started script runs
\* to its end; time passes and an activation in progress completes; pending
\* credentials trigger the executor; an AP start that is tried again and again
\* does come up.
FairSpec ==
  /\ Spec
  /\ WF_vars(Watchdog)
  /\ WF_vars(Age)
  /\ WF_vars(StaSettle)
  /\ \A p \in Execs : WF_vars(ExecRun(p))
  /\ WF_vars(pending.exists /\ \E p \in Execs : ExecStart(p))
  /\ SF_vars(WdStartAp /\ AP \in active')

\* ---------------------------------------------------------------- claims

ApActive == AP \in active

\* STA is usable: an STA profile is active with a non-empty IPv4 address outside
\* the AP subnet and the interface state is at least 100.
StaUsable ==
  /\ active \cap StaNames # {}
  /\ link.ip # NoIP
  /\ ~IsApSubnet(link.ip)
  /\ link.state >= 100

Running(p) == pc[p] # "idle"
Exits(p) == pc[p] # "idle" /\ pc'[p] = "idle"
HasRead(p) ==
  \/ pc[p] \in {"teardown", "connect", "poll", "poll_state", "revert",
                "rv_finish", "ok_stop", "ok_finish"}
  \/ pc[p] = "read" /\ pending.exists

\* A switch is owned by the executor: credentials wait or a run is under way.
SwitchInFlight == pending.exists \/ \E p \in Execs : Running(p)

\* C1: whenever neither the AP nor a usable STA connection is active, the AP
\* becomes active or STA becomes usable eventually (no permanent lockout).
\* Stated in the form the claim implies: recovery may wait for a switch that is
\* in flight, but with none in flight it has to come.
C1_NoPermanentLockout ==
  (~ApActive /\ ~StaUsable) ~> (ApActive \/ StaUsable \/ SwitchInFlight)

\* C2: the AP profile and an STA profile are never both active on the interface.
C2_RadioExclusive == ~(ApActive /\ active \cap StaNames # {})

\* C2 witness: the AP was brought up on the radio while an executor that has
\* connected STA is polling.
C2_Witness ==
  /\ ApActive
  /\ StaName("home") \in profiles
  /\ \E p \in Execs : pc[p] \in {"poll", "poll_state"}

\* C3: at most one executor is past the lock acquisition at any instant.
C3_MutualExclusion == Cardinality({p \in Execs : Running(p)}) <= 1

\* C3 witness: one executor is polling, holding the lock, after another run
\* bounced off the lock (exit 0 with no cooldown file ever written).
C3_Witness ==
  \E p \in Execs : pc[p] = "poll" /\ lockHeld = p /\ rc = 0 /\ cooldown = -1

\* C4: a run that starts and exits while another executor keeps holding the
\* lock changes no network profile, not the pending file, not the cooldown file.
C4_ContentionNoop ==
  [][(lockHeld # 0 /\ lockHeld' = lockHeld /\ pc' = pc /\ rc' # rc)
       => UNCHANGED <<pending, cooldown, profiles, active, link, timer>>]_vars

\* C4 witness: a contended run has exited 0 while the holder is still before its
\* AP teardown: the pending file and the active AP are still there.
C4_Witness ==
  /\ lockHeld # 0
  /\ pc[lockHeld] = "teardown"
  /\ rc = 0 /\ cooldown = -1
  /\ pending.exists /\ ApActive

\* C5: a run one of whose polls saw a good address (non-empty, outside the AP
\* subnet, state >= 100) exits with the AP profile deleted, the pending file
\* deleted, the cooldown file freshly written and exit status 0.
C5_SuccessPath ==
  [][\A p \in Execs :
       (Exits(p) /\ sawGood[p])
         => /\ AP \notin profiles'
            /\ ~pending'.exists
            /\ cooldown' = 0
            /\ rc' = 0]_vars

\* C6: a run that read a non-empty ssid and none of whose polls saw a good
\* address exits with the AP active, the pending file deleted and a non-zero
\* exit status.
C6_TimeoutFallback ==
  [][\A p \in Execs :
       (Exits(p) /\ SSID[p] # "" /\ ~sawGood[p])
         => /\ AP \in active'
            /\ ~pending'.exists
            /\ rc' # 0]_vars

\* C7: a run that has read the pending file leaves no pending file when it
\* exits, whatever the exit path.
C7_PendingConsumed ==
  [][\A p \in Execs : (Exits(p) /\ HasRead(p)) => ~pending'.exists]_vars

\* C8: the connection attempt never ends the run: from the connect step the
\* run goes on to the poll, also when the connect call fails.
C8_ConnectFailureContinues ==
  [][\A p \in Execs : (pc[p] = "connect" /\ pc'[p] # "connect")
                        => pc'[p] = "poll"]_vars

\* C9: a tick that runs its first check while no executor holds the lock, no
\* pending file exists, the cooldown file is absent or at least 300 s old and
\* STA is not usable does not return there: it is on its way to start the AP.
C9_WatchdogRecovery ==
  [][(/\ wpc = "check" /\ wpc' # "check"
      /\ lockHeld = 0
      /\ ~pending.exists
      /\ (cooldown = -1 \/ cooldown >= CooldownSecs)
      /\ ~StaUsable)
       => ~WdSkipped']_vars

\* C10: a tick that checks while the lock is held or the pending file exists
\* returns without starting the AP and without changing any network profile.
C10_WatchdogDefers ==
  [][(/\ wpc = "check" /\ wpc' # "check"
      /\ (lockHeld # 0 \/ pending.exists))
       => /\ wpc' = "skip_guard"
          /\ UNCHANGED <<profiles, active, link, timer>>]_vars

\* C10 witness: a tick has returned without starting the AP while an executor
\* holds the lock and no pending file exists.
C10_Witness == wpc = "skip_guard" /\ lockHeld # 0 /\ ~pending.exists /\ ~ApActive

\* C11: a tick that reaches its cooldown check while the cooldown file exists
\* with an age below 300 s returns without starting the AP and without changing
\* any network profile, whatever the state of STA; with the file 300 s old or
\* older the tick goes on to its STA check as it does with no file.
C11_CooldownSuppression ==
  [][/\ (wpc = "cool" /\ wpc' # "cool")
          => /\ (cooldown # -1 /\ cooldown < CooldownSecs) => wpc' = "skip_cool"
             /\ (cooldown = -1 \/ cooldown >= CooldownSecs) => wpc' = "sta"
     /\ (wpc = "skip_cool" /\ wpc' # "skip_cool")
          => /\ wpc' = "idle"
             /\ UNCHANGED <<profiles, active, link, timer>>]_vars

\* C11 witness: a tick has returned at the cooldown check with a fresh cooldown
\* file while STA is down and no AP is up.
C11_Witness ==
  /\ wpc = "skip_cool"
  /\ cooldown # -1 /\ cooldown < CooldownSecs
  /\ ~StaUsable /\ ~ApActive

\* C12: a tick that reaches its STA check returns without starting the AP
\* exactly when a wifi connection is active, the interface has a non-empty IPv4
\* address outside the AP subnet and its state is at least 100; otherwise it
\* goes on to start the AP.
C12_StaUpDecision ==
  [][(wpc = "sta" /\ wpc' # "sta")
       => (wpc' = "skip_sta" <=> (/\ active # {}
                                  /\ link.ip # NoIP
                                  /\ ~IsApSubnet(link.ip)
                                  /\ link.state >= 100))]_vars

\* C13: the steps of a run that finds no pending file (its start and its exit
\* at the missing-file check) change no network profile, no file of the
\* instance directory (pending, lock, cooldown) and not the expiry timer, so
\* that a later tick decides as it would have without the run.
C13_NoPendingNoop ==
  [][\A p \in Execs :
       (/\ ~pending.exists
        /\ \/ pc[p] = "idle" /\ pc'[p] = "read"
           \/ pc[p] = "read" /\ pc'[p] = "idle")
         => UNCHANGED <<pending, lockFile, cooldown, profiles, active, link, timer>>]_vars

\* C14: a run that finds a pending file with an empty ssid deletes the file and
\* exits (status 2) at that step; neither that step nor the run's start changes
\* a network profile, the active connection, the expiry timer or the cooldown
\* file: no AP teardown, no STA profile, no AP fallback, no cooldown.
C14_MalformedInput ==
  [][\A p \in Execs :
       /\ (pc[p] = "read" /\ pc'[p] # "read" /\ pending.exists /\ pending.ssid = "")
            => /\ pc'[p] = "idle"
               /\ rc' = 2
               /\ ~pending'.exists
               /\ UNCHANGED <<cooldown, profiles, active, link, timer>>
       /\ (pc[p] = "idle" /\ pc'[p] = "read")
            => UNCHANGED <<pending, cooldown, profiles, active, link, timer>>]_vars

\* C14 witness: a run holds the lock and is at the ssid check with an empty-ssid
\* pending file while the AP is up and an STA profile from an earlier switch is
\* saved.
C14_Witness ==
  \E p \in Execs :
    /\ pc[p] = "read" /\ lockHeld = p
    /\ pending.exists /\ pending.ssid = ""
    /\ ApActive /\ StaName("home") \in profiles

\* C15: a run whose connect step finds a saved STA profile for the submitted
\* SSID leaves that step with the profile active on the interface (it has asked
\* for the connection to come up) before it polls.
C15_ReuseActivates ==
  [][\A p \in Execs :
       (pc[p] = "connect" /\ pc'[p] = "poll" /\ StaName(SSID[p]) \in profiles)
         => StaName(SSID[p]) \in active']_vars

\* C16: at every moment at most one saved STA profile exists for an SSID, and
\* every saved profile that is not an AP profile carries the name derived from
\* an SSID alone (FirePiSTA-<ssid>).
C16_StaProfileReuse ==
  /\ \A n \in StaNames : copies[n] <= 1 /\ (copies[n] = 1 <=> n \in profiles)
  /\ profiles \ ApNames \subseteq {StaName(s) : s \in Ssids \ {""}}

\* C16 witness: a second run for the same SSID has passed its connect step and
\* is polling with the profile saved by an earlier run (whose connect failed).
C16_Witness ==
  \E p \in Execs :
    /\ pc[p] = "poll" /\ SSID[p] = "home"
    /\ copies[StaName("home")] = 1
    /\ rc = 4

\* An upper bound on the steps a run has left before it exits: two per poll
\* iteration not yet made, and the straight-line steps around the loop.
StepsLeft(p) ==
  CASE pc[p] = "idle"       -> 0
    [] pc[p] = "read"       -> 2 * PollBudget + 5
    [] pc[p] = "teardown"   -> 2 * PollBudget + 4
    [] pc[p] = "connect"    -> 2 * PollBudget + 3
    [] pc[p] = "poll"       -> 2 * (PollBudget - i[p]) + 4
    [] pc[p] = "poll_state" -> 2 * (PollBudget - i[p]) + 3
    [] pc[p] \in {"revert", "ok_stop"}      -> 2
    [] pc[p] \in {"rv_finish", "ok_finish"} -> 1

\* C17: a run that has the lock never makes a 21st poll, every step it takes
\* brings it strictly closer to its exit (no retry, no way back), and it always
\* has a next step to take (it waits for nothing but its own calls): a run
\* that keeps being scheduled exits within 2 * 20 + 5 of its own steps.
C17_BoundedAttempt ==
  /\ [](\A p \in Execs : /\ i[p] <= PollBudget
                          /\ StepsLeft(p) >= 0
                          /\ Running(p) => ENABLED ExecRun(p))
  /\ [][\A p \in Execs :
          (Running(p) /\ <<pc[p], i[p]>> # <<pc'[p], i'[p]>>)
            => StepsLeft(p)' < StepsLeft(p)]_vars

\* C17 witness: a run is in its 20th poll iteration with the address read and
\* the interface still without a usable state.
C17_Witness ==
  \E p \in Execs : pc[p] = "poll_state" /\ i[p] = PollBudget /\ link.state < 100

\* C18: the lock is held only by a run that has not exited: whatever the exit
\* path (no pending file, empty ssid, success, timeout, a failed connect under
\* set -e), the exit releases it; and a run started while no run is under way
\* acquires the lock.
C18_LockRelease ==
  /\ [](\A p \in Execs : ~Running(p) => lockHeld # p)
  /\ [][\A p \in Execs :
          /\ Exits(p) => lockHeld' # p
          /\ (ExecStart(p) /\ \A q \in Execs : ~Running(q))
               => lockHeld' = p /\ pc'[p] = "read"]_vars

\* C18 witness: a run holds the lock after the run before it was ended by a
\* failed connect.
C18_Witness ==
  \E p \in Execs : lockHeld = p /\ pc[p] = "read" /\ rc = 4

\* A step that is a call of `firepi-softap.sh stop`: by a run on its success
\* path, or by the expiry timer.
StopCalled ==
  \/ \E p \in Execs : pc[p] = "ok_stop" /\ pc'[p] = "ok_finish"
  \/ timer /\ ~timer'

\* C19 as stated: every call of stop made while no AP is active leaves the
\* network profiles unchanged.
C19_StopNoApActive ==
  [][(StopCalled /\ ~ApActive) => UNCHANGED profiles]_vars

\* C19, amended: every call of stop made while no AP profile exists leaves
\* profiles, active connection and interface state unchanged (a saved but
\* inactive AP profile is deleted); after any call no AP profile exists; and
\* in every reachable state stop(); stop() gives the state of a single stop().
C19_StopIdempotent ==
  /\ [](StopResult(StopResult(NmState)) = StopResult(NmState))
  /\ [](AP \notin StopResult(NmState).profiles)
  /\ [][StopCalled
          => /\ <<profiles', active', link'>>
                  = <<StopResult(NmState).profiles, StopResult(NmState).active,
                      StopResult(NmState).link>>
             /\ AP \notin profiles => UNCHANGED <<profiles, active, link>>]_vars

\* C19 witness: stop is about to be called by a run on its success path while
\* no AP profile exists and STA is up; the expiry timer of an earlier AP window
\* is still armed and will call it once more.
C19_Witness ==
  /\ \E p \in Execs : pc[p] = "ok_stop"
  /\ AP \notin profiles
  /\ StaUsable
  /\ timer

\* The window of an AP elapses: the expiry unit scheduled by start fires, or
\* the sleep of the windowed script returns.
WindowElapses ==
  \/ timer /\ ~timer'
  \/ wsa = "sleep" /\ wsa' = "idle"

\* C20: when the window of an AP elapses while that AP is still active
\* (nothing stopped it, STA did not take the radio), the AP is deactivated.
C20_ApSelfExpiry ==
  [][(WindowElapses /\ ApActive) => ~ApActive']_vars

Last6Hex(addr) ==
  LET digits == SelectSeq(addr, LAMBDA c : c # ":")
  IN [k \in 1..6 |-> HexUpper(digits[Len(digits) - 6 + k])]

\* C22 as stated: for every MAC address, the SSID derived by the start|stop
\* and the windowed variant is "FirePi-" followed by the last six hex digits of
\* the MAC, and the PSK is "FirePi" followed by the same six digits.
C22_IdentityFormat ==
  \A v \in {"startstop", "windowed"} :
    apId[v] # NoId
      => /\ apId[v].ssid = FirePi \o Dash \o Last6Hex(mac)
         /\ apId[v].psk = FirePi \o Last6Hex(mac)

\* C22, amended: the PSK of both variants is "FirePi" followed by the last six
\* hex digits of the MAC in upper case; the SSID of the windowed variant is
\* "FirePi-" followed by the same six digits; the SSID of the start|stop variant
\* is "FirePi-", the last four characters of the CPU serial ("0000" when there
\* is none), "-", and the same six digits.
C22_IdentityFormatByVariant ==
  /\ apId["windowed"] # NoId
       => /\ apId["windowed"].ssid = FirePi \o Dash \o Last6Hex(mac)
          /\ apId["windowed"].psk = FirePi \o Last6Hex(mac)
  /\ apId["startstop"] # NoId
       => /\ apId["startstop"].psk = FirePi \o Last6Hex(mac)
          /\ apId["startstop"].ssid =
               FirePi \o Dash
                 \o (IF serial = <<>> THEN <<"0", "0", "0", "0">>
                                      ELSE SubSeq(serial, Len(serial) - 3, Len(serial)))
                 \o Dash \o Last6Hex(mac)

\* C22 witness: both variants have derived the identity of a device whose MAC
\* ends in lower-case hex letters and which reports no serial.
C22_Witness ==
  /\ apId["windowed"] # NoId /\ apId["startstop"] # NoId
  /\ mac[17] = "a"
  /\ serial = <<>>

\* C23: the browser is never reloaded or sent anywhere by the prober before one
\* of its probes has failed; with successes only it never is.
C23_EdgeTriggered ==
  /\ [][(reloads' # reloads \/ nav' # nav) => everFailed]_vars
  /\ [](~everFailed /\ ppc # "off" => reloads = 0 /\ nav = "none")

\* C23 witness: the prober has seen successes only, MaxProbes of them, and is
\* still waiting without a reload.
C23_Witness ==
  /\ ppc = "wait" /\ probes = MaxProbes
  /\ ~everFailed /\ reloads = 0

\* C24: a successful probe that follows a failed probe of the same run reloads
\* the page in that very pass, so at the first such success; the page is
\* reloaded once, and after the reload the loop neither probes nor arms its
\* timeout again.
C24_UpTransition ==
  /\ [][(ppc = "ping" /\ ppc' # "ping" /\ everFailed
            /\ pingOnce(last'.out) = "true")
          => (reloads' = reloads + 1 /\ ppc' = "reloaded")]_vars
  /\ [](reloads <= 1)
  /\ [][ppc = "reloaded"
          => (ppc' = "reloaded" /\ probes' = probes /\ reloads' = reloads)]_vars

\* C24 witness: fail, fail, success has reloaded the page on the third probe.
C24_Witness ==
  /\ ppc = "reloaded" /\ reloads = 1 /\ nav = "origin"
  /\ probes = 3 /\ everFailed /\ pingOnce(last.out) = "true"


\* C25: a started prober that observes no down-to-up transition stops probing
\* in the end (its deadline passes); it does not probe forever.
C25_BoundedProbing ==
  (ppc \in {"ping", "wait"}) ~> (ppc \notin {"ping", "wait"})

\* C26: when connect() finishes after the backend accepted the credentials,
\* the reconnect prober is running in this browser session.
C26_ProberAfterSubmit ==
  [][(upc = "ok" /\ upc' = "idle") => ppc' # "off"]_vars

\* C27: once the prober has seen the device down, then unless the device
\* answers at the page's origin again or fails to answer at its well-known
\* hostname, the browser is sent to the hostname's base URL.
C27_Rediscovery ==
  (seenDown /\ ppc \in {"ping", "wait"})
    ~> (nav = "host" \/ obs.origin \/ ~obs.host)


\* C28: the watchdog never starts the AP while an executor that has torn the
\* AP down is connecting or polling STA.
C28_NoCheckThenActRace ==
  [][(wpc = "start" /\ wpc' = "idle")
       => ~\E p \in Execs : pc[p] \in {"connect", "poll", "poll_state"}]_vars


\* C29: the pending file a run deletes at its end holds the credentials that
\* run read; credentials written while the run was under way are not
\* deleted unread.
C29_NoLostHandoff ==
  [][\A p \in Execs :
       (pc[p] \in {"rv_finish", "ok_finish"} /\ Exits(p) /\ pending.exists)
         => (pending.ssid = SSID[p] /\ pending.psk = PSK[p])]_vars


\* C30: a run that has polled reports success (takes the success branch and
\* exits 0) exactly when the poll that ended its loop saw an address outside
\* the AP subnet with state >= 100, within 20 polls; otherwise it takes the
\* revert branch and exits 1.
C30_PollConsistent ==
  /\ [](\A p \in Execs :
          /\ pc[p] \in {"ok_stop", "ok_finish"} => sawGood[p]
          /\ pc[p] \in {"revert", "rv_finish"} => ~sawGood[p] /\ i[p] = PollBudget
          /\ i[p] <= PollBudget)
  /\ [][\A p \in Execs :
          (pc[p] = "poll_state" /\ pc'[p] \notin {"poll_state", "poll"})
            => /\ sawGood'[p] = LoopBreak(IP[p], link.state)
               /\ pc'[p] = IF sawGood'[p] THEN "ok_stop" ELSE "revert"]_vars
  /\ [][\A p \in Execs :
          (pc[p] \in {"rv_finish", "ok_finish"} /\ Exits(p))
            => (rc' = 0 <=> sawGood[p])]_vars

\* C30 witness: the 20th poll of a run is the one that sees the good address,
\* and the run is in its success branch.
C30_Witness ==
  \E p \in Execs :
    /\ pc[p] = "ok_finish" /\ sawGood[p] /\ i[p] = PollBudget
    /\ IP[p] = LanIP


\* C31: pingOnce always resolves to a boolean, never to a rejection: true
\* exactly when the health response came with an OK status, false on a non-OK
\* status, a network error and the abort at the timeout; and a loop has at
\* most one probe in flight, the next being sent only after the previous one
\* has resolved.
C31_ProbeResolves ==
  /\ [](last.ok \in {"true", "false"} /\ ppc # "dead")
  /\ [](last.out # "none" => (last.ok = "true" <=> last.out = "ok"))
  /\ [](inflight \in {0, 1} /\ (inflight = 1 <=> ppc = "ping"))
  /\ [][inflight' > inflight => inflight = 0]_vars

\* C31 witness: a probe has just ended in the abort at the timeout, resolved
\* to false, and the loop waits for its timeout with no probe in flight.
C31_Witness ==
  /\ last = [out |-> "abort", ok |-> "false"]
  /\ ppc = "wait" /\ inflight = 0 /\ seenDown


AnyApActive == active \cap ApNames # {}

\* C32: a start that leaves no AP active (creating or activating the profile
\* failed) ends with a non-zero status and does not print that the AP is up.
C32_StartFailureReported ==
  [][(starts' = starts + 1 /\ ~AnyApActive')
       => (ctl'.rc # 0 /\ ~ctl'.said)]_vars


\* C33: an expiry takes down only the AP of the start that scheduled it; a
\* start that brings the AP up has its own timer pending afterwards; and once
\* the AP has been taken down by stop, no expiry is left pending.
C33_WindowRefresh ==
  /\ [][(timer /\ ~timer' /\ AnyApActive /\ ~AnyApActive')
          => armedBy.n = upBy]_vars
  /\ [][(starts' = starts + 1 /\ AnyApActive') => armedBy'.n = starts']_vars
  /\ [][(starts' = starts /\ AnyApActive /\ ~AnyApActive') => ~timer']_vars


\* The interface carries an activated station connection.
StaConnected == active \cap StaNames # {} /\ link.state = 100

\* C34: the windowed soft-AP script run on an interface that is connected as
\* STA changes nothing in NetworkManager (no AP profile created, modified or
\* activated); whenever it brings the AP up, the interface was not connected
\* when it checked.
C34_ConditionalApStart ==
  /\ [][(WinStart /\ StaConnected) => UNCHANGED nm]_vars
  /\ [][(WinStart /\ ((ApActive' /\ ~ApActive) \/ profiles' # profiles))
          => (~StaConnected /\ link.state # 100)]_vars

\* C34 witness: with a station profile saved but not connected, the script
\* has brought the AP up and sleeps through its window.
C34_Witness ==
  /\ wsa = "sleep" /\ ApActive /\ link = ApLink
  /\ profiles \cap StaNames # {} /\ AP \in profiles


\* C35: the boot-time online check polls the global state a fixed number of
\* times at most; it exits without starting the AP window only on reading the
\* state "connected", and starts the AP window when all its polls have read
\* another state.
C35_BootOnlineCheck ==
  /\ [](bi <= Polls(bvar))
  /\ [][(bres = "none" /\ bres' = "exit") => gtext' = Connected]_vars
  /\ [][(bres = "none" /\ bres' = "started")
          => (gtext' # Connected /\ bi' = Polls(bvar))]_vars


\* C36: no step of the watchdog, on any of its paths, creates, changes or
\* removes the pending file, the lock file or the cooldown marker.
C36_WatchdogFrame ==
  [][Watchdog => UNCHANGED <<pending, lockFile, cooldown>>]_vars

\* C36 witness: a tick is leaving on "switch lock present" with all three
\* files there.
C36_Witness ==
  /\ wpc = "skip_guard"
  /\ lockFile /\ pending.exists /\ cooldown # -1


\* C37: the cooldown marker is created or refreshed only by the last step of
\* an executor run that saw STA come up and exits 0; no-op, malformed-input
\* and timeout runs, the watchdog and the AP scripts never write it.
C37_CooldownOnlyOnSuccess ==
  [][(cooldown' # cooldown /\ cooldown' = 0)
       => \E p \in Execs : /\ pc[p] = "ok_finish" /\ Exits(p)
                           /\ sawGood[p] /\ rc' = 0]_vars

\* C37 witness: a run has just ended with success: exit 0, a fresh marker,
\* the AP profile gone and STA usable.
C37_Witness ==
  /\ cooldown = 0 /\ rc = 0 /\ lockHeld = 0
  /\ \A p \in Execs : pc[p] = "idle"
  /\ AP \notin profiles /\ StaUsable

====
